---- MODULE Spec2Model ----
(***************************************************************************)
(* Forecasting and segmentation analysis engine of the Indonesian          *)
(* demographics pipeline: ARIMAForecaster (grid search, fit, forecast),    *)
(* forecast_region, the national / regional forecasting workflow with its  *)
(* three entry points, and the quadrant analysis.                          *)
(*                                                                         *)
(* statsmodels is outside the repository.  A time series is represented by *)
(* what the library answers for it: for every candidate order, whether     *)
(* ARIMA(series, order).fit() raises or which AIC it reports.              *)
(* Python's None is the empty tuple, a present value v is <<v>> (an order  *)
(* is its own triple <<p, d, q>>).                                         *)
(***************************************************************************)
EXTENDS Integers, Sequences, FiniteSets, TLC

VARIABLES
    self,            \* SpecGrid: the ARIMAForecaster object under test
    call,            \* SpecGrid: frame of the last call made on it (op = "idle": none)
    expenditure_df,  \* SpecSeries, Spec: the cleaned expenditure table
    result,          \* SpecSeries: the function called on it and what it returned
    entry,           \* Spec: the entry point that runs the analysis
    pc,              \* Spec: the stage the entry point is at
    config,          \* Spec: the configuration it loaded
    national,        \* Spec: outcome of forecast_national_expenditure
    top_regions,     \* Spec: the ranking forecast_regional_expenditure works through
    attempts,        \* Spec: one entry per pass of the regional loop
    regional_forecasts, \* Spec: the list the regional loop collects
    files,           \* Spec: the output files
    outcome,         \* Spec: how the entry point ended
    quadrant,        \* Spec: whether run_quadrant_analysis was called, and how it ended
    analyzer,        \* SpecQuad: the QuadrantAnalyzer object
    merged,          \* SpecQuad: the joined cross-section
    thresholds,      \* SpecQuad: (tfr_threshold, exp_threshold), once calculated
    segmented_df,    \* SpecQuad: the cross-section with its segment column
    stats,           \* SpecQuad: the segment statistics table
    rerun,           \* SpecQuad: what a second run of the analysis produced
    saved,           \* SpecQuad: how the plots ended and the two csv files
    tfr_df,          \* SpecJoin: the cleaned fertility table
    merged_df,       \* SpecJoin: the cross-section run_quadrant_analysis joins
    verdicts,        \* SpecVerdict: one national input and its run under each verdict
    cli              \* SpecCli: the command line, the phases run and the exit status

gridVars == <<self, call>>
seriesVars == <<expenditure_df, result>>
flowVars == <<entry, pc, config, national, top_regions, attempts,
              regional_forecasts, files, outcome, quadrant>>
quadVars == <<analyzer, merged, thresholds, segmented_df, stats, rerun, saved>>
joinVars == <<tfr_df, merged_df>>
vars == <<gridVars, seriesVars, flowVars, quadVars, joinVars, verdicts, cli>>

(* Each specification below exercises one part of the engine; the         *)
(* variables of the other parts stay at Off                                *)
Off == <<>>
GridOff == self = Off /\ call = Off
FlowOff ==
    /\ entry = Off /\ pc = Off /\ config = Off /\ national = Off
    /\ top_regions = Off /\ attempts = Off /\ regional_forecasts = Off
    /\ files = Off /\ outcome = Off /\ quadrant = Off
QuadOff ==
    /\ analyzer = Off /\ merged = Off /\ thresholds = Off
    /\ segmented_df = Off /\ stats = Off /\ rerun = Off /\ saved = Off
JoinOff == tfr_df = Off /\ merged_df = Off
VerdictOff == verdicts = Off
CliOff == cli = Off
exceptGrid == <<seriesVars, flowVars, quadVars, joinVars, verdicts, cli>>
exceptSeries == <<gridVars, flowVars, quadVars, joinVars, verdicts, cli>>
exceptFlow == <<gridVars, result, quadVars, joinVars, verdicts, cli>>
exceptQuad == <<gridVars, seriesVars, flowVars, joinVars, verdicts, cli>>
exceptJoin == <<gridVars, result, flowVars, quadVars, verdicts, cli>>
exceptVerdict == <<gridVars, result, flowVars, quadVars, joinVars, cli>>
exceptCli == <<gridVars, seriesVars, flowVars, quadVars, joinVars, verdicts>>

-----------------------------------------------------------------------------
(* Bounds of the model *)

MaxOrd == 1          \* largest max_p / max_d / max_q a configuration sets
MaxCombos == 4       \* largest search space (number of candidate orders)
MaxIC == 2           \* AIC values reported by a fit are 1..MaxIC
MaxH == 2            \* largest forecast horizon
MaxYear == 6         \* the periods of a table are 1..MaxYear
MaxVal == 2          \* tfr and expenditure of a cross-section are 1..MaxVal

(* np.inf, the initial best-so-far of a grid search *)
Inf == 1000

None == <<>>
Some(v) == <<v>>


-----------------------------------------------------------------------------
(* ARIMA configuration and the search space *)

Criteria == {"aic", "bic"}

Combos(cfg) == (cfg.max_p + 1) * (cfg.max_d + 1) * (cfg.max_q + 1)

ArimaConfigs ==
    {cfg \in [max_p : 0..MaxOrd, max_d : 0..MaxOrd, max_q : 0..MaxOrd,
              information_criterion : Criteria] : Combos(cfg) <= MaxCombos}

(* ARIMAForecaster.__init__ *)
ARIMAForecaster(arima) ==
    [max_p |-> arima.max_p, max_d |-> arima.max_d, max_q |-> arima.max_q,
     ic |-> arima.information_criterion,
     best_model |-> None, best_order |-> None, best_ic |-> None]

(* itertools.product(p_range, d_range, q_range): p varies slowest, q fastest *)
Product(f) ==
    [i \in 1..((f.max_p + 1) * (f.max_d + 1) * (f.max_q + 1)) |->
        <<(i - 1) \div ((f.max_d + 1) * (f.max_q + 1)),
          ((i - 1) \div (f.max_q + 1)) % (f.max_d + 1),
          (i - 1) % (f.max_q + 1)>>]

OrdersOf(f) == {Product(f)[i] : i \in DOMAIN Product(f)}

(* What statsmodels answers for one series: per order, failure or an AIC *)
FitOutcomes == {[ok |-> FALSE, aic |-> 0]} \cup {[ok |-> TRUE, aic |-> a] : a \in 1..MaxIC}

(* The standard error statsmodels gives the forecasts of a series: none,   *)
(* or one unit per step ahead                                             *)
StdErrs == {0, 1}

SeriesOf(f) == [fit : [OrdersOf(f) -> FitOutcomes], se : StdErrs]

(* The series whose forecasts have one unit of standard error per step:    *)
(* the series of the specifications that do not read the interval          *)
UnitSeriesOf(f) == {t \in SeriesOf(f) : t.se = 1}

(* fitted_model.bic: AIC plus a penalty growing with the number of parameters *)
BicOf(aic, order) == aic + order[1] + order[3] + 1

(* ARIMA(timeseries, order).fit() when it does not raise *)
FittedModel(timeseries, order) ==
    [order |-> order,
     aic |-> timeseries.fit[order].aic,
     bic |-> BicOf(timeseries.fit[order].aic, order),
     se |-> timeseries.se]

(* ARIMA(timeseries, order=order).fit() returns; an order of None is no   *)
(* order the library accepts                                              *)
Fits(timeseries, order) ==
    order \in DOMAIN timeseries.fit /\ timeseries.fit[order].ok

(* ic_value = fitted_model.aic if self.ic == 'aic' else fitted_model.bic *)
IcValue(f, model) == IF f.ic = "aic" THEN model.aic ELSE model.bic

-----------------------------------------------------------------------------
(* ARIMAForecaster.grid_search *)

ResultRow(f, model) ==
    [p |-> model.order[1], d |-> model.order[2], q |-> model.order[3],
     order |-> model.order, AIC |-> model.aic, BIC |-> model.bic,
     IC |-> IcValue(f, model)]

(* One pass of the for loop body, for candidate number i.  st holds the *)
(* forecaster, the local best_ic, the results list and the attempts made. *)
(* A comparison that lets an equal value replace the best so far *)
Improves_or_ties(ic_value, best_ic) == ic_value <= best_ic

(* if ic_value < best_ic *)
Improves(ic_value, best_ic) == ic_value < best_ic

(* A handler that records the failed candidate as a row without values *)
OnFitFailure_recorded(st, order) ==
    [st EXCEPT !.attempts = Append(st.attempts, order),
               !.results = Append(st.results,
                                  [p |-> order[1], d |-> order[2], q |-> order[3],
                                   order |-> order, AIC |-> Inf, BIC |-> Inf,
                                   IC |-> Inf])]

(* except Exception: continue.  The candidate leaves no trace but its turn *)
OnFitFailure(st, order) == [st EXCEPT !.attempts = Append(st.attempts, order)]

GridStep(st, timeseries, i) ==
    LET order == Product(st.self)[i]
        tried == Append(st.attempts, order)
    IN  IF ~Fits(timeseries, order)
        THEN OnFitFailure(st, order)
        ELSE LET model == FittedModel(timeseries, order)
                 ic_value == IcValue(st.self, model)
                 rows == Append(st.results, ResultRow(st.self, model))
             IN  IF Improves(ic_value, st.best_ic)
                 THEN [self |-> [st.self EXCEPT !.best_order = order,
                                                !.best_model = Some(model),
                                                !.best_ic = Some(ic_value)],
                       best_ic |-> ic_value, results |-> rows, attempts |-> tried]
                 ELSE [st EXCEPT !.results = rows, !.attempts = tried]

(* A loop that ends at the first candidate that fails to fit *)
RECURSIVE GridLoop_until_failure(_, _, _)
GridLoop_until_failure(st, timeseries, i) ==
    IF i > Len(Product(st.self)) THEN st
    ELSE IF ~Fits(timeseries, Product(st.self)[i])
    THEN GridStep(st, timeseries, i)
    ELSE GridLoop_until_failure(GridStep(st, timeseries, i), timeseries, i + 1)

RECURSIVE GridLoop(_, _, _)
GridLoop(st, timeseries, i) ==
    IF i > Len(Product(st.self)) THEN st
    ELSE GridLoop(GridStep(st, timeseries, i), timeseries, i + 1)

(* DataFrame.sort_values('IC'): insertion of each row behind the rows that *)
(* are not larger *)
RECURSIVE SortByIC(_)
SortByIC(rows) ==
    IF rows = <<>> THEN <<>>
    ELSE LET rest == SortByIC(SubSeq(rows, 1, Len(rows) - 1))
             r == rows[Len(rows)]
             k == Cardinality({j \in DOMAIN rest : rest[j].IC <= r.IC})
         IN  SubSeq(rest, 1, k) \o <<r>> \o SubSeq(rest, k + 1, Len(rest))

(* A frame built from an empty list would sort without complaint if it   *)
(* had an 'IC' column                                                     *)
sort_values_of_empty(rows) == [raised |-> "none", rows |-> SortByIC(rows)]

(* pd.DataFrame(results).sort_values('IC').  The frame of an empty list   *)
(* has no 'IC' column: KeyError.                                          *)
sort_values(rows) ==
    IF rows = <<>> THEN [raised |-> "KeyError", rows |-> <<>>]
    ELSE [raised |-> "none", rows |-> SortByIC(rows)]

(* The search started with the local best_ic = start *)
GridSearchFrom(f, timeseries, start) ==
    LET st == GridLoop([self |-> f, best_ic |-> start, results |-> <<>>,
                        attempts |-> <<>>], timeseries, 1)
        sorted == sort_values(st.results)
    IN  [self |-> st.self, raised |-> sorted.raised, results |-> sorted.rows,
         attempts |-> st.attempts]

grid_search_stale(f, timeseries) ==
    GridSearchFrom(f, timeseries, IF f.best_ic = None THEN Inf ELSE f.best_ic[1])

grid_search(f, timeseries) == GridSearchFrom(f, timeseries, Inf)

-----------------------------------------------------------------------------
(* ARIMAForecaster.fit *)

fit(f, timeseries, order) ==
    LET searched == IF order = None /\ f.best_order = None
                    THEN grid_search(f, timeseries)
                    ELSE [self |-> f, raised |-> "none", results |-> <<>>,
                          attempts |-> <<>>]
        f1 == searched.self
        ord == IF order = None THEN f1.best_order ELSE order
    IN  IF searched.raised # "none"
        THEN [self |-> f1, raised |-> searched.raised, ret |-> None]
        ELSE IF ~Fits(timeseries, ord)
        THEN [self |-> f1, raised |-> "FitError", ret |-> None]
        ELSE LET model == FittedModel(timeseries, ord)
             IN  [self |-> [f1 EXCEPT !.best_model = Some(model),
                                      !.best_order = ord],
                  raised |-> "none", ret |-> Some(model)]

(* ARIMAForecaster.forecast: one entry per step ahead, or ValueError *)
(* get_forecast(steps).predicted_mean *)
predicted_mean(model, steps) == [k \in 1..steps |-> k]

(* get_forecast(steps).conf_int(): per step the two columns, the mean less *)
(* and the mean plus a multiple of the standard error that grows with the  *)
(* step                                                                    *)
conf_int(model, steps) ==
    [k \in 1..steps |-> <<predicted_mean(model, steps)[k] - k * model.se,
                          predicted_mean(model, steps)[k] + k * model.se>>]

forecast(f, steps) ==
    IF f.best_model = None
    THEN [raised |-> "ValueError", forecast_mean |-> <<>>, forecast_ci |-> <<>>]
    ELSE [raised |-> "none",
          forecast_mean |-> predicted_mean(f.best_model[1], steps),
          forecast_ci |-> conf_int(f.best_model[1], steps)]

(* ARIMAForecaster.get_model_summary: {} while no model is fitted.  A     *)
(* forecaster object that a specification does not follow has no fields  *)
(* and no summary.                                                        *)
get_model_summary(f) ==
    IF "best_model" \notin DOMAIN f THEN <<>>
    ELSE IF f.best_model = None THEN <<>>
    ELSE <<[order |-> f.best_order,
            aic |-> f.best_model[1].aic, bic |-> f.best_model[1].bic,
            p |-> f.best_order[1], d |-> f.best_order[2], q |-> f.best_order[3]]>>

(* The columns taken the other way round *)
iloc_reversed(forecast_ci, col) == [k \in DOMAIN forecast_ci |-> forecast_ci[k][2 - col]]

(* forecast_ci.iloc[:, col].values *)
iloc(forecast_ci, col) == [k \in DOMAIN forecast_ci |-> forecast_ci[k][col + 1]]

-----------------------------------------------------------------------------
(* The expenditure table.  rows[<<r, y>>] is the number of rows the table  *)
(* holds for region r and year y; level[r] is the expenditure column of    *)
(* region r's rows.  The values of a series reach the model only through   *)
(* what statsmodels answers for them.                                      *)

Regions == {"A", "B"}
Years == 1..MaxYear

RowKeys == Regions \X Years

(* len(frame) *)
RECURSIVE SumRows(_, _)
SumRows(rows, keys) ==
    IF keys = {} THEN 0
    ELSE LET k == CHOOSE x \in keys : TRUE
         IN  rows[k] + SumRows(rows, keys \ {k})

(* df[df['region_name'] == region_name]: the row counts of one region *)
RegionData(df, region_name) ==
    [k \in RowKeys |-> IF k[1] = region_name THEN df.rows[k] ELSE 0]

Len_(rows) == SumRows(rows, RowKeys)

YearsIn(rows) == {y \in Years : \E r \in Regions : rows[<<r, y>>] > 0}

(* Series.max() of a year column that has rows *)
MaxOf(S) == CHOOSE m \in S : \A x \in S : x <= m

(* An index that starts at the last observed period instead of after it *)
Arange_from_last(lo, hi) == [k \in 1..(IF hi > lo THEN hi - lo ELSE 0) |-> lo + k - 2]

(* np.arange(last_year + 1, last_year + forecast_steps + 1) *)
Arange(lo, hi) == [k \in 1..(IF hi > lo THEN hi - lo ELSE 0) |-> lo + k - 1]

(* prepare_time_series without group_col: one row per year, ascending *)
RECURSIVE SortedSeq(_)
SortedSeq(S) ==
    IF S = {} THEN <<>>
    ELSE LET m == MaxOf(S) IN Append(SortedSeq(S \ {m}), m)

prepare_time_series(df) == SortedSeq(YearsIn(df.rows))

(* The minimum history forecast_region asks for *)
MinRows == 5

(* forecast_region.  timeseries is what statsmodels answers for the values *)
(* of region_data.                                                         *)
forecast_region(df, region_name, forecaster, forecast_steps, timeseries) ==
    LET region_data == RegionData(df, region_name)
    IN  IF Len_(region_data) < MinRows
        THEN [ret |-> None, fit_called |-> FALSE, error |-> "none",
              forecaster |-> forecaster]
        ELSE LET fitted == fit(forecaster, timeseries, None)
                 fc == forecast(fitted.self, forecast_steps)
                 last_year == MaxOf(YearsIn(region_data))
                 forecast_years == Arange(last_year + 1, last_year + forecast_steps + 1)
             IN  IF fitted.raised # "none"
                 THEN [ret |-> None, fit_called |-> TRUE, error |-> fitted.raised,
                       forecaster |-> fitted.self]
                 ELSE IF fc.raised # "none"
                 THEN [ret |-> None, fit_called |-> TRUE, error |-> fc.raised,
                       forecaster |-> fitted.self]
                 ELSE [ret |-> Some([k \in 1..forecast_steps |->
                                      [region_name |-> region_name,
                                       year |-> forecast_years[k],
                                       forecast |-> fc.forecast_mean[k],
                                       lower_ci |-> iloc(fc.forecast_ci, 0)[k],
                                       upper_ci |-> iloc(fc.forecast_ci, 1)[k]]]),
                       fit_called |-> TRUE, error |-> "none",
                       forecaster |-> fitted.self]

-----------------------------------------------------------------------------
(* forecast_national_expenditure *)

(* The steps on the national series in which a library call can raise *)
Faults == {"none", "prepare_time_series", "test_stationarity", "get_metrics",
           "forecast"}

(* config.arima of the runs: a search space of two candidates, ARIMA(0,0,0) *)
(* and ARIMA(0,0,1), selected by AIC                                        *)
WorkflowArima ==
    {c \in ArimaConfigs : /\ c.max_p = 0 /\ c.max_d = 0 /\ c.max_q = 1
                          /\ c.information_criterion = "aic"}

NationalFailed(stage, national_ts, forecaster) ==
    [raised |-> stage, national_ts |-> national_ts, forecast_df |-> <<>>,
     forecaster |-> forecaster, metrics |-> None]

(* A test that leaves out differencing for a series it finds stationary *)
test_stationarity_gating(f, adf) ==
    [self |-> IF adf THEN [f EXCEPT !.max_d = 0] ELSE f, is_stationary |-> adf]

(* ARIMAForecaster.test_stationarity.  adf is whether adfuller's p-value   *)
(* is at most 0.05; the verdict is returned and printed, the forecaster    *)
(* is not assigned to                                                      *)
test_stationarity(f, adf) == [self |-> f, is_stationary |-> adf]

(* timeseries is what statsmodels answers for the national series, fault   *)
(* the step (if any) whose library call raises, adf the verdict of the     *)
(* stationarity test                                                       *)
forecast_national_expenditure(df, conf, timeseries, fault, adf) ==
    LET national_ts == prepare_time_series(df)
        forecaster == ARIMAForecaster(conf.arima)
        tested == test_stationarity(forecaster, adf)
        searched == grid_search(tested.self, timeseries)
        forecast_steps == conf.forecast_horizon_years
        fc == forecast(searched.self, forecast_steps)
        last_year == MaxOf(YearsIn(df.rows))
        forecast_years == Arange(last_year + 1, last_year + forecast_steps + 1)
    IN  IF fault = "prepare_time_series"
        THEN NationalFailed("prepare_time_series", <<>>, None)
        ELSE IF fault = "test_stationarity" \/ national_ts = <<>>
        THEN NationalFailed("test_stationarity", national_ts, Some(forecaster))
        ELSE IF searched.raised # "none"
        THEN NationalFailed("grid_search", national_ts, Some(searched.self))
        ELSE IF fault = "get_metrics"
        THEN NationalFailed("get_metrics", national_ts, Some(searched.self))
        ELSE IF fault = "forecast" \/ fc.raised # "none"
        THEN NationalFailed("forecast", national_ts, Some(searched.self))
        ELSE [raised |-> "none", national_ts |-> national_ts,
              forecast_df |-> [k \in 1..forecast_steps |->
                                 [year |-> forecast_years[k],
                                  forecast |-> fc.forecast_mean[k],
                                  lower_ci |-> iloc(fc.forecast_ci, 0)[k],
                                  upper_ci |-> iloc(fc.forecast_ci, 1)[k]]],
              forecaster |-> Some(searched.self),
              metrics |-> Some("metrics")]

-----------------------------------------------------------------------------
(* forecast_regional_expenditure and save_results *)

RegionOrder == <<"A", "B">>

(* The region_name column of the rows of year y, in table order *)
RECURSIVE RowsAt(_, _, _)
RowsAt(df, y, i) ==
    IF i > Len(RegionOrder) THEN <<>>
    ELSE [k \in 1..df.rows[<<RegionOrder[i], y>>] |-> RegionOrder[i]]
         \o RowsAt(df, y, i + 1)

(* DataFrame.nlargest(n, 'expenditure'): descending, ties in table order *)
RECURSIVE nlargest(_, _, _)
nlargest(names, level, n) ==
    IF n = 0 \/ names = <<>> THEN <<>>
    ELSE LET best == CHOOSE i \in DOMAIN names :
                        /\ \A j \in DOMAIN names : level[names[j]] <= level[names[i]]
                        /\ \A j \in 1..(i - 1) : level[names[j]] < level[names[i]]
             rest == [j \in 1..(Len(names) - 1) |->
                        IF j < best THEN names[j] ELSE names[j + 1]]
         IN  <<names[best]>> \o nlargest(rest, level, n - 1)

TopRegions(df, top_n) ==
    LET latest_year == MaxOf(YearsIn(df.rows))
    IN  nlargest(RowsAt(df, latest_year, 1), df.level, top_n)

(* A pass that starts the list afresh when a region yields no frame *)
Collect_or_reset(forecasts, forecast_df) ==
    IF forecast_df # None THEN Append(forecasts, forecast_df[1]) ELSE <<>>

(* One pass of the loop: the region's frame is appended unless it is None *)
Collect(forecasts, forecast_df) ==
    IF forecast_df # None THEN Append(forecasts, forecast_df[1]) ELSE forecasts

RECURSIVE Concat(_)
Concat(frames) ==
    IF frames = <<>> THEN <<>> ELSE Head(frames) \o Concat(Tail(frames))

NoFile == [written |-> FALSE, content |-> <<>>]
Written(rows) == [written |-> TRUE, content |-> rows]

(* save_results: the regional file is written only if any region was forecast *)
save_results(old, nat, forecasts, model_summary) ==
    [old EXCEPT
       !.national_forecast =
           Written([i \in 1..Len(nat.national_ts) |->
                      [year |-> nat.national_ts[i], type |-> "historical"]]
                   \o [i \in 1..Len(nat.forecast_df) |->
                      [year |-> nat.forecast_df[i].year, type |-> "forecast"]]),
       !.regional_forecasts =
           IF forecasts # <<>> THEN Written(Concat(forecasts)) ELSE @,
       !.model_info = Written(model_summary)]

-----------------------------------------------------------------------------
(* QuadrantAnalyzer.  A cross-section is a sequence of rows; a threshold   *)
(* is the fraction num / den (a median or a mean need not be an integer),  *)
(* NaN the fraction with den = 0 (median or mean of no rows).              *)

NaN == [num |-> 0, den |-> 0]
Frac(n, d) == [num |-> n, den |-> d]

(* "at least" that leaves a value equal to the threshold out *)
Gt(v, t) == t.den # 0 /\ v * t.den > t.num

(* v >= t and v < t of floats: both False against NaN *)
Ge(v, t) == t.den # 0 /\ v * t.den >= t.num

(* "below" that leaves the values within 1 of the threshold out *)
Lt_minus_one(v, t) == t.den # 0 /\ (v + 1) * t.den < t.num

Lt(v, t) == t.den # 0 /\ v * t.den < t.num

RECURSIVE SumSeq(_)
SumSeq(xs) == IF xs = <<>> THEN 0 ELSE Head(xs) + SumSeq(Tail(xs))

RECURSIVE SortNums(_)
SortNums(xs) ==
    IF xs = <<>> THEN <<>>
    ELSE LET rest == SortNums(Tail(xs))
             k == Cardinality({j \in DOMAIN rest : rest[j] <= Head(xs)})
         IN  SubSeq(rest, 1, k) \o <<Head(xs)>> \o SubSeq(rest, k + 1, Len(rest))

(* A median that takes the upper of the two middle values of an even count *)
Median_upper_middle(xs) ==
    IF xs = <<>> THEN NaN ELSE Frac(SortNums(xs)[Len(xs) \div 2 + 1], 1)

(* Series.median() *)
Median(xs) ==
    LET sorted == SortNums(xs)
        n == Len(xs)
    IN  IF n = 0 THEN NaN
        ELSE IF n % 2 = 1 THEN Frac(sorted[(n + 1) \div 2], 1)
        ELSE Frac(sorted[n \div 2] + sorted[n \div 2 + 1], 2)

(* Series.mean() *)
Mean(xs) == IF xs = <<>> THEN NaN ELSE Frac(SumSeq(xs), Len(xs))

Methods == {"median", "mean", "fixed"}

(* config.get(key, default) of a dictionary *)
Get(conf, key, default) == IF key \in DOMAIN conf THEN conf[key] ELSE default

(* The fixed thresholds __init__ takes when the configuration has none:    *)
(* 2.1 children (in tenths) and 10000                                      *)
DefaultTfrFixed == 21
DefaultExpFixed == 10000

QuadrantAnalyzer(conf) ==
    [tfr_threshold_method |-> Get(conf, "tfr_threshold_method", "median"),
     exp_threshold_method |-> Get(conf, "expenditure_threshold_method", "median"),
     tfr_threshold_fixed |-> Get(conf, "tfr_threshold_fixed", DefaultTfrFixed),
     exp_threshold_fixed |-> Get(conf, "expenditure_threshold_fixed", DefaultExpFixed)]

Column(df, col) == [i \in DOMAIN df |-> df[i][col]]

(* Both thresholds taken by the method configured for tfr *)
calculate_thresholds_one_method(qa, df) ==
    [tfr_threshold |->
        IF qa.tfr_threshold_method = "median" THEN Median(Column(df, "tfr"))
        ELSE IF qa.tfr_threshold_method = "mean" THEN Mean(Column(df, "tfr"))
        ELSE Frac(qa.tfr_threshold_fixed, 1),
     exp_threshold |->
        IF qa.tfr_threshold_method = "median" THEN Median(Column(df, "expenditure"))
        ELSE IF qa.tfr_threshold_method = "mean" THEN Mean(Column(df, "expenditure"))
        ELSE Frac(qa.exp_threshold_fixed, 1)]

calculate_thresholds(qa, df) ==
    [tfr_threshold |->
        IF qa.tfr_threshold_method = "median" THEN Median(Column(df, "tfr"))
        ELSE IF qa.tfr_threshold_method = "mean" THEN Mean(Column(df, "tfr"))
        ELSE Frac(qa.tfr_threshold_fixed, 1),
     exp_threshold |->
        IF qa.exp_threshold_method = "median" THEN Median(Column(df, "expenditure"))
        ELSE IF qa.exp_threshold_method = "mean" THEN Mean(Column(df, "expenditure"))
        ELSE Frac(qa.exp_threshold_fixed, 1)]

(* The labels of high/high, high/low, low/high, low/low (the defaults of   *)
(* self.segments.get)                                                      *)
choices == <<"Stars", "Developing", "Cash Cows", "Saturated">>

(* np.select(conditions, choices, default='Unknown') for one row: the      *)
(* choice of the first condition that holds                                *)
np_select(conditions) ==
    IF \E i \in DOMAIN conditions : conditions[i]
    THEN choices[CHOOSE i \in DOMAIN conditions :
                    conditions[i] /\ \A j \in 1..(i - 1) : ~conditions[j]]
    ELSE "Unknown"

assign_segments(df, tfr_threshold, exp_threshold) ==
    [i \in DOMAIN df |->
        [region_name |-> df[i].region_name, tfr |-> df[i].tfr,
         expenditure |-> df[i].expenditure,
         segment |-> np_select(
            <<Ge(df[i].tfr, tfr_threshold) /\ Ge(df[i].expenditure, exp_threshold),
              Ge(df[i].tfr, tfr_threshold) /\ Lt(df[i].expenditure, exp_threshold),
              Lt(df[i].tfr, tfr_threshold) /\ Ge(df[i].expenditure, exp_threshold),
              Lt(df[i].tfr, tfr_threshold) /\ Lt(df[i].expenditure, exp_threshold)>>)]]

(* The caller's frame if the segment column were added to it *)
CallerFrame_in_place(df, assigned) == assigned

(* df = df.copy(): the column is added to a copy, the caller's frame stays *)
(* as it was                                                               *)
CallerFrame(df, assigned) == df

(* The group keys of groupby('segment') come out sorted *)
SortedLabels == <<"Cash Cows", "Developing", "Saturated", "Stars", "Unknown">>

CountOf(df, label) == Cardinality({i \in DOMAIN df : df[i].segment = label})

(* A statistics table that has a row for every label, members or not *)
get_segment_statistics_all_labels(df) ==
    [k \in DOMAIN SortedLabels |->
        [segment |-> SortedLabels[k], count |-> CountOf(df, SortedLabels[k])]]

(* groupby('segment').agg(count ...): one row per segment value that       *)
(* occurs in df                                                            *)
get_segment_statistics(df) ==
    LET Occurs(label) == CountOf(df, label) > 0
        present == SelectSeq(SortedLabels, Occurs)
    IN  [k \in DOMAIN present |->
            [segment |-> present[k], count |-> CountOf(df, present[k])]]

-----------------------------------------------------------------------------
(* SpecSeries: forecast_region and forecast_national_expenditure applied   *)
(* to a table in which region "A" has any history (gaps, one period with   *)
(* several rows) and region "B" at most one row.                           *)

FrameOf(present, dup_year, year_b) ==
    [rows |-> [k \in RowKeys |->
                 IF k[1] = "A"
                 THEN (IF k[2] \in present
                       THEN (IF k[2] = dup_year THEN 2 ELSE 1)
                       ELSE 0)
                 ELSE (IF k[2] = year_b THEN 1 ELSE 0)],
     level |-> [r \in Regions |-> 1]]

(* dup_year = 0: no period of "A" has two rows; year_b = 0: no row for "B" *)
SeriesFrames ==
    {FrameOf(present, dup_year, year_b) :
        present \in SUBSET Years, dup_year \in 0..MaxYear, year_b \in {0, MaxYear}}

AnyFit(timeseries) == \E o \in DOMAIN timeseries.fit : timeseries.fit[o].ok

InitSeries ==
    /\ expenditure_df \in SeriesFrames
    /\ result = [op |-> "none"]
    /\ GridOff /\ FlowOff /\ QuadOff /\ JoinOff
    /\ VerdictOff /\ CliOff

RegionCall ==
    /\ result.op = "none"
    /\ \E region_name \in Regions, forecast_steps \in 1..MaxH, arima \in WorkflowArima :
         \E timeseries \in SeriesOf(ARIMAForecaster(arima)) :
           \E r \in {forecast_region(expenditure_df, region_name,
                                      ARIMAForecaster(arima), forecast_steps,
                                      timeseries)} :
               result' = [op |-> "forecast_region", region_name |-> region_name,
                          forecast_steps |-> forecast_steps,
                          any_fit |-> AnyFit(timeseries),
                          ret |-> r.ret, fit_called |-> r.fit_called,
                          error |-> r.error]
    /\ UNCHANGED <<expenditure_df, exceptSeries>>

NationalCall ==
    /\ result.op = "none"
    /\ \E forecast_steps \in 1..MaxH, arima \in WorkflowArima, fault \in Faults :
         \E timeseries \in SeriesOf(ARIMAForecaster(arima)), adf \in BOOLEAN :
           \E r \in {forecast_national_expenditure(
                          expenditure_df,
                          [arima |-> arima, forecast_horizon_years |-> forecast_steps],
                          timeseries, fault, adf)} :
               result' = [op |-> "forecast_national_expenditure",
                          forecast_steps |-> forecast_steps,
                          any_fit |-> AnyFit(timeseries), fault |-> fault,
                          raised |-> r.raised, national_ts |-> r.national_ts,
                          forecast_df |-> r.forecast_df]
    /\ UNCHANGED <<expenditure_df, exceptSeries>>

NextSeries == RegionCall \/ NationalCall

SpecSeries == InitSeries /\ [][NextSeries]_vars

-----------------------------------------------------------------------------
(* Properties of SpecSeries *)

HistoryOf(region_name) == YearsIn(RegionData(expenditure_df, region_name))

(* C2: a region with fewer than 5 historical periods is always skipped (no *)
(* model is fitted for it and it yields no forecast rows), also when its   *)
(* history has several rows for one period.  forecast_region counts the    *)
(* rows of the region, not its periods: 4 periods of which one has two     *)
(* rows pass the test, a model is fitted and forecast rows are returned.   *)
C2_FewPeriodsAlwaysSkipped ==
    (result.op = "forecast_region"
       /\ Cardinality(HistoryOf(result.region_name)) < MinRows)
    => (result.ret = None /\ ~result.fit_called)

(* C6: a forecast with horizon H has exactly H rows, for the periods       *)
(* last + 1 .. last + H where last is the last observed period of the      *)
(* entity's own series (the region's rows; all rows for the nation).       *)
C6_ForecastPeriods ==
    /\ (result.op = "forecast_region" /\ result.ret # None) =>
         LET rows == result.ret[1]
             last == MaxOf(HistoryOf(result.region_name))
         IN  /\ Len(rows) = result.forecast_steps
             /\ \A k \in 1..Len(rows) :
                  /\ rows[k].year = last + k
                  /\ rows[k].region_name = result.region_name
    /\ (result.op = "forecast_national_expenditure" /\ result.raised = "none") =>
         LET rows == result.forecast_df
             last == MaxOf(YearsIn(expenditure_df.rows))
         IN  /\ Len(rows) = result.forecast_steps
             /\ \A k \in 1..Len(rows) : rows[k].year = last + k

(* A region is forecast over several periods while another region has     *)
(* been observed later than it                                             *)
C6_Witness ==
    /\ result.op = "forecast_region"
    /\ result.ret # None
    /\ result.forecast_steps > 1
    /\ MaxOf(HistoryOf(result.region_name)) < MaxOf(YearsIn(expenditure_df.rows))

(* C20: every row of a forecast table, regional or national, has           *)
(* lower_ci <= forecast <= upper_ci.                                       *)
C20_IntervalContainsForecast ==
    /\ (result.op = "forecast_region" /\ result.ret # None) =>
          \A k \in DOMAIN result.ret[1] :
              /\ result.ret[1][k].lower_ci <= result.ret[1][k].forecast
              /\ result.ret[1][k].forecast <= result.ret[1][k].upper_ci
    /\ result.op = "forecast_national_expenditure" =>
          \A k \in DOMAIN result.forecast_df :
              /\ result.forecast_df[k].lower_ci <= result.forecast_df[k].forecast
              /\ result.forecast_df[k].forecast <= result.forecast_df[k].upper_ci

(* A national forecast of several steps with an interval of positive width *)
C20_Witness ==
    /\ result.op = "forecast_national_expenditure"
    /\ Len(result.forecast_df) > 1
    /\ \A k \in DOMAIN result.forecast_df :
          result.forecast_df[k].lower_ci < result.forecast_df[k].upper_ci

(* C14: forecasting a national series with fewer than 5 periods fails and *)
(* never yields a national forecast.  (The claim also asks for the failure *)
(* to be an insufficient-data error raised before any model selection;     *)
(* stated here is the weaker part, that the call fails at all.)  Neither   *)
(* prepare_time_series nor forecast_national_expenditure looks at the      *)
(* length of the series.                                                   *)
C14_ShortNationalSeriesFails ==
    (result.op = "forecast_national_expenditure"
       /\ Cardinality(YearsIn(expenditure_df.rows)) < MinRows)
    => (result.raised # "none" /\ result.forecast_df = <<>>)

-----------------------------------------------------------------------------
(* SpecGrid: any sequence of calls on one ARIMAForecaster *)

Idle ==
    [op |-> "idle", timeseries |-> None, order |-> None, steps |-> 0,
     raised |-> "none", results |-> <<>>, attempts |-> <<>>,
     forecast_mean |-> <<>>, forecast_ci |-> <<>>, pre |-> None,
     actual |-> <<>>, metrics |-> None]

InitGrid ==
    /\ \E arima \in ArimaConfigs : self = ARIMAForecaster(arima)
    /\ call = Idle
    /\ expenditure_df = Off /\ result = Off /\ FlowOff /\ QuadOff /\ JoinOff
    /\ VerdictOff /\ CliOff

GridSearchCall ==
    /\ call.op = "idle"
    /\ \E timeseries \in UnitSeriesOf(self) :
         \E out \in {grid_search(self, timeseries)} :
             /\ self' = out.self
             /\ call' = [Idle EXCEPT !.op = "grid_search",
                                     !.timeseries = Some(timeseries),
                                     !.raised = out.raised,
                                     !.results = out.results,
                                     !.attempts = out.attempts,
                                     !.pre = Some(self.best_order)]
    /\ UNCHANGED exceptGrid

FitCall ==
    /\ call.op = "idle"
    /\ \E timeseries \in UnitSeriesOf(self), order \in {None} \cup OrdersOf(self) :
         \E out \in {fit(self, timeseries, order)} :
             /\ self' = out.self
             /\ call' = [Idle EXCEPT !.op = "fit",
                                     !.timeseries = Some(timeseries),
                                     !.order = order,
                                     !.raised = out.raised,
                                     !.pre = Some(self.best_order)]
    /\ UNCHANGED exceptGrid

ForecastCall ==
    /\ call.op = "idle"
    /\ \E steps \in 1..MaxH :
         \E out \in {forecast(self, steps)} :
             /\ self' = self
             /\ call' = [Idle EXCEPT !.op = "forecast",
                                     !.steps = steps,
                                     !.raised = out.raised,
                                     !.forecast_mean = out.forecast_mean,
                                     !.forecast_ci = out.forecast_ci,
                                     !.pre = Some(self.best_order)]
    /\ UNCHANGED exceptGrid

(* The call returns (or its exception is handled): its frame is gone *)
Return ==
    /\ call.op # "idle"
    /\ call' = Idle
    /\ UNCHANGED <<self, exceptGrid>>

NextGrid == GridSearchCall \/ FitCall \/ ForecastCall \/ Return

SpecGrid == InitGrid /\ [][NextGrid]_vars

-----------------------------------------------------------------------------
(* Claims about ARIMAForecaster, checked under SpecGrid *)

(* The candidates of the last call's series that statsmodels fits *)
Successes == {o \in OrdersOf(self) : call.timeseries[1].fit[o].ok}

(* The configured criterion of candidate o on the last call's series *)
Criterion(o) ==
    IF self.ic = "aic" THEN call.timeseries[1].fit[o].aic
    ELSE BicOf(call.timeseries[1].fit[o].aic, o)

(* C1: after grid_search on a series for which at least one candidate fits, *)
(* best_order is a candidate that fit in this search and no other candidate *)
(* that fit has a smaller value of the configured criterion, whatever the   *)
(* forecaster held before the call.                                         *)
C1_GridSearchSelectsArgMin ==
    (call.op = "grid_search" /\ Successes # {}) =>
        /\ self.best_order \in Successes
        /\ \A o \in Successes : Criterion(self.best_order) <= Criterion(o)

(* C1 witness: a search on a forecaster that already held another order,    *)
(* with failing and fitting candidates, two of them of different criterion  *)
C1_Witness ==
    /\ call.op = "grid_search"
    /\ call.pre[1] # None
    /\ call.pre[1] # self.best_order
    /\ Successes # OrdersOf(self)
    /\ \E o \in Successes : Criterion(self.best_order) < Criterion(o)

(* Candidate a comes before candidate b in itertools.product's order: p    *)
(* varies slowest, q fastest                                               *)
Before(a, b) ==
    \/ a[1] < b[1]
    \/ a[1] = b[1] /\ a[2] < b[2]
    \/ a[1] = b[1] /\ a[2] = b[2] /\ a[3] < b[3]

(* C21: when several candidates that fit share the smallest criterion      *)
(* value, grid_search keeps the one that comes first in enumeration order; *)
(* every candidate before the selected one has a strictly larger value.    *)
C21_TiesKeepFirst ==
    (call.op = "grid_search" /\ Successes # {}) =>
        /\ self.best_order \in Successes
        /\ \A o \in Successes :
              /\ Criterion(self.best_order) <= Criterion(o)
              /\ Criterion(o) = Criterion(self.best_order)
                    => (o = self.best_order \/ Before(self.best_order, o))
              /\ Before(o, self.best_order)
                    => Criterion(o) > Criterion(self.best_order)

(* A search in which a later candidate ties with the selected one *)
C21_Witness ==
    /\ call.op = "grid_search"
    /\ self.best_order \in Successes
    /\ \E o \in Successes :
          /\ o # self.best_order
          /\ Criterion(o) = Criterion(self.best_order)
    /\ \E o \in Successes : Criterion(o) > Criterion(self.best_order)
(* C22: a candidate whose fit fails adds no row to the results table, is   *)
(* never the selected model and does not stop the search: the candidates   *)
(* after it are attempted, and the table a search returns has exactly one  *)
(* row per candidate that fit, holding that candidate's values.            *)
C22_FailedCandidatesLeaveNoRow ==
    call.op = "grid_search" =>
        /\ \A i \in DOMAIN call.results : call.results[i].order \in Successes
        /\ call.raised = "none" =>
              \A o \in Successes :
                  Cardinality({i \in DOMAIN call.results :
                                  /\ call.results[i].order = o
                                  /\ call.results[i].IC = Criterion(o)}) = 1
        /\ self.best_order # call.pre[1] => self.best_order \in Successes
        /\ Successes = {} => self.best_order = call.pre[1]
        /\ \A o \in OrdersOf(self) \ Successes :
              \A j \in DOMAIN Product(self) :
                  (\E i \in DOMAIN call.attempts : i < j /\ call.attempts[i] = o)
                     => \E k \in DOMAIN call.attempts :
                            call.attempts[k] = Product(self)[j]

(* A returned search in which a candidate failed and a later one fit *)
C22_Witness ==
    /\ call.op = "grid_search"
    /\ call.raised = "none"
    /\ Len(call.results) >= 2
    /\ \E i, j \in DOMAIN call.attempts :
          /\ i < j
          /\ call.attempts[i] \notin Successes
          /\ call.attempts[j] \in Successes
(* C28: after fit(series) with no explicit order has returned, best_order  *)
(* is an arg-min of the criterion over the candidates that fit that series *)
(* and best_model is the model of that order on that series, whatever was  *)
(* called on the forecaster before.  fit searches only while best_order is *)
(* unset: on a forecaster that holds an order from an earlier call it      *)
(* refits that order on the new series.                                    *)
C28_FitSearchesItsOwnSeries ==
    (call.op = "fit" /\ call.order = None /\ call.raised = "none") =>
        /\ self.best_order \in Successes
        /\ \A o \in Successes : Criterion(self.best_order) <= Criterion(o)
        /\ self.best_model = Some(FittedModel(call.timeseries[1], self.best_order))
(* C29: after any sequence of calls on one forecaster, best_order,         *)
(* best_model and best_ic are all unset, or all set and of one candidate:  *)
(* best_model is a model of order best_order and best_ic is the configured *)
(* criterion of that model.  fit assigns best_model and best_order and     *)
(* leaves best_ic as it was.                                               *)
C29_BestFieldsAgree ==
    \/ self.best_order = None /\ self.best_model = None /\ self.best_ic = None
    \/ /\ self.best_order # None /\ self.best_model # None /\ self.best_ic # None
       /\ self.best_model[1].order = self.best_order
       /\ self.best_ic[1] = IcValue(self, self.best_model[1])

(* The search space ARIMAForecaster takes when the configuration gives none *)
DefaultSpace == [max_p |-> 3, max_d |-> 2, max_q |-> 3]

(* C19: grid_search attempts every (p, d, q) with 0 <= p <= max_p,         *)
(* 0 <= d <= max_d, 0 <= q <= max_q exactly once, that is                  *)
(* (max_p+1)(max_d+1)(max_q+1) attempts (48 for 3/2/3), and then ends,     *)
(* however many of the candidates fail to fit.                             *)
C19_EveryCandidateOnce ==
    /\ Len(Product(DefaultSpace)) = 48
    /\ call.op = "grid_search" =>
         /\ Len(call.attempts) = (self.max_p + 1) * (self.max_d + 1) * (self.max_q + 1)
         /\ \A p \in 0..self.max_p, d \in 0..self.max_d, q \in 0..self.max_q :
                Cardinality({i \in DOMAIN call.attempts :
                                call.attempts[i] = <<p, d, q>>}) = 1

(* A search over several candidates of which the first fails and a later   *)
(* one fits                                                                *)
C19_Witness ==
    /\ call.op = "grid_search"
    /\ Len(call.attempts) > 2
    /\ ~Fits(call.timeseries[1], call.attempts[1])
    /\ call.raised = "none"

-----------------------------------------------------------------------------
(* Spec: one run of the analysis from one of its entry points, on a table  *)
(* in which every region has one of four histories.                        *)

Entries == {"run_phase4", "run_analysis", "forecast_expenditure"}

(* "ended": MinRows years, the last one missing; "short": MinRows - 1      *)
(* years; "full": MinRows years; "repeated": short, its first year twice   *)
Shapes == {"ended", "short", "full", "repeated"}

ShapeRows(shape, y) ==
    IF shape = "ended"
    THEN (IF y >= MaxYear - MinRows /\ y <= MaxYear - 1 THEN 1 ELSE 0)
    ELSE IF shape = "full"
    THEN (IF y >= MaxYear - MinRows + 1 THEN 1 ELSE 0)
    ELSE IF y = MaxYear - MinRows + 2 /\ shape = "repeated" THEN 2
    ELSE IF y >= MaxYear - MinRows + 2 THEN 1 ELSE 0

FlowFrames ==
    {[rows |-> [k \in RowKeys |-> ShapeRows(shape[k[1]], k[2])], level |-> level] :
        shape \in [Regions -> Shapes], level \in [Regions -> 1..Cardinality(Regions)]}

Configs ==
    [arima : WorkflowArima, forecast_horizon_years : 1..MaxH,
     top_n_regions : 1..Cardinality(Regions), save_forecasts : BOOLEAN]

Pending ==
    [raised |-> "pending", fault |-> "none", any_fit |-> FALSE,
     national_ts |-> <<>>, forecast_df |-> <<>>]

NoFiles ==
    [national_forecast |-> NoFile, regional_forecasts |-> NoFile,
     model_info |-> NoFile, market_segmentation |-> NoFile]

InitFlow ==
    /\ expenditure_df \in FlowFrames
    /\ entry \in Entries
    /\ config \in Configs
    /\ pc = "national"
    /\ national = Pending
    /\ top_regions = <<>>
    /\ attempts = <<>>
    /\ regional_forecasts = <<>>
    /\ files = NoFiles
    /\ outcome = "running"
    /\ quadrant = "not called"
    /\ GridOff /\ result = Off /\ QuadOff /\ JoinOff
    /\ VerdictOff /\ CliOff

(* An exception of the forecasting part resumes in the handler the regional *)
(* stage would start in                                                     *)
OnForecastErrorResume(e) == [pc |-> "regional_start", outcome |-> "running"]

(* Where an exception raised in the forecasting part ends up: run_phase4    *)
(* returns False, run_analysis.main prints it and goes on with the quadrant *)
(* analysis, forecast_expenditure.main does not catch it                    *)
OnForecastError(e) ==
    IF e = "run_phase4" THEN [pc |-> "done", outcome |-> "False"]
    ELSE IF e = "run_analysis" THEN [pc |-> "quadrant", outcome |-> "running"]
    ELSE [pc |-> "done", outcome |-> "uncaught"]

NationalStage ==
    /\ pc = "national"
    /\ \E fault \in Faults, timeseries \in UnitSeriesOf(ARIMAForecaster(config.arima)),
          adf \in BOOLEAN :
         \E r \in {forecast_national_expenditure(expenditure_df, config,
                                                  timeseries, fault, adf)} :
             /\ national' = [raised |-> r.raised, fault |-> fault,
                             any_fit |-> AnyFit(timeseries),
                             national_ts |-> r.national_ts,
                             forecast_df |-> r.forecast_df]
             /\ IF r.raised = "none"
                THEN pc' = "regional_start" /\ outcome' = outcome
                ELSE /\ pc' = OnForecastError(entry).pc
                     /\ outcome' = OnForecastError(entry).outcome
    /\ UNCHANGED <<expenditure_df, entry, config, top_regions, attempts,
                   regional_forecasts, files, quadrant, exceptFlow>>

RegionalStart ==
    /\ pc = "regional_start"
    /\ top_regions' = TopRegions(expenditure_df, config.top_n_regions)
    /\ pc' = "regional"
    /\ UNCHANGED <<expenditure_df, entry, config, national, attempts,
                   regional_forecasts, files, outcome, quadrant, exceptFlow>>

(* The line the loop prints for a region: a tick for a forecast, and for    *)
(* every None the same reason                                              *)
RegionReport(forecast_df) ==
    IF forecast_df # None THEN "ok" ELSE "insufficient data"

(* A loop that fits each region on the forecaster it was handed *)
LoopForecaster_passed(passed, arima) == [obj |-> passed, fresh |-> FALSE]

(* forecaster = ARIMAForecaster(config.arima) inside the loop: the name of *)
(* the parameter is bound to a new object, the caller's object is left     *)
LoopForecaster(passed, arima) == [obj |-> ARIMAForecaster(arima), fresh |-> TRUE]

RegionalIteration ==
    /\ pc = "regional"
    /\ Len(attempts) < Len(top_regions)
    /\ \E timeseries \in UnitSeriesOf(ARIMAForecaster(config.arima)),
          loop \in {LoopForecaster(self, config.arima)} :
         \E r \in {forecast_region(expenditure_df, top_regions[Len(attempts) + 1],
                                    loop.obj,
                                    config.forecast_horizon_years, timeseries)} :
             /\ self' = IF loop.fresh THEN self ELSE r.forecaster
             /\ attempts' = Append(attempts,
                              [region_name |-> top_regions[Len(attempts) + 1],
                               any_fit |-> AnyFit(timeseries),
                               fit_called |-> r.fit_called,
                               error |-> r.error,
                               forecast_df |-> r.ret,
                               report |-> RegionReport(r.ret)])
             /\ regional_forecasts' = Collect(regional_forecasts, r.ret)
    /\ UNCHANGED <<expenditure_df, entry, config, national, top_regions, pc,
                   files, outcome, quadrant, call, result, quadVars, joinVars,
                   verdicts, cli>>

SaveResults ==
    /\ pc = "regional"
    /\ Len(attempts) = Len(top_regions)
    /\ files' = IF config.save_forecasts
                THEN save_results(files, national, regional_forecasts,
                                  get_model_summary(self))
                ELSE files
    /\ IF entry = "forecast_expenditure"
       THEN pc' = "done" /\ outcome' = "returned"
       ELSE pc' = "quadrant" /\ outcome' = outcome
    /\ UNCHANGED <<expenditure_df, entry, config, national, top_regions,
                   attempts, regional_forecasts, quadrant, exceptFlow>>

QuadrantStage ==
    /\ pc = "quadrant"
    /\ \E raises \in BOOLEAN :
         /\ files' = IF raises THEN files
                     ELSE [files EXCEPT !.market_segmentation = Written(<<>>)]
         /\ outcome' = IF entry = "run_analysis" THEN "completed"
                       ELSE IF raises THEN "False" ELSE "True"
         /\ quadrant' = IF raises THEN "raised" ELSE "returned"
    /\ pc' = "done"
    /\ UNCHANGED <<expenditure_df, entry, config, national, top_regions,
                   attempts, regional_forecasts, exceptFlow>>

Next ==
    \/ NationalStage
    \/ RegionalStart
    \/ RegionalIteration
    \/ SaveResults
    \/ QuadrantStage

Spec == InitFlow /\ [][Next]_vars

-----------------------------------------------------------------------------
(* Properties of Spec *)

ForecastFilesWritten ==
    \/ files.national_forecast.written
    \/ files.regional_forecasts.written
    \/ files.model_info.written

RegionalStageEntered ==
    \/ pc \in {"regional_start", "regional"}
    \/ top_regions # <<>>
    \/ attempts # <<>>

(* The national stage has run and one of its steps failed: a library call  *)
(* raised, or no candidate order fits the national series                  *)
NationalStepFailed ==
    /\ national.raised # "pending"
    /\ national.fault # "none" \/ ~national.any_fit

(* C3: if a step on the national series fails (preparation, stationarity   *)
(* test, grid search, metrics or forecast), no regional forecast is        *)
(* attempted afterwards and no forecast or model-info file is saved in the *)
(* run, from whichever entry point it was started.                         *)
C3_NationalFailureAborts ==
    NationalStepFailed =>
        /\ national.raised # "none"
        /\ ~RegionalStageEntered
        /\ ~ForecastFilesWritten

(* run_analysis went on to the quadrant analysis after the metrics of the  *)
(* national model failed, with saving switched on                          *)
C3_Witness ==
    /\ national.fault = "get_metrics" /\ national.any_fit
    /\ national.raised = "get_metrics"
    /\ entry = "run_analysis"
    /\ config.save_forecasts
    /\ pc = "done"
    /\ files.market_segmentation.written

(* The pass for attempts[i] had enough rows and a candidate that fits *)
Succeeds(a) ==
    /\ Len_(RegionData(expenditure_df, a.region_name)) >= MinRows
    /\ a.any_fit

Succeeded == {i \in DOMAIN attempts : Succeeds(attempts[i])}

(* C4: a region that fails in the regional loop (too little history, no    *)
(* candidate fits) does not stop the loop: the regions are attempted in    *)
(* ranking order, all of them by the time the loop is left, and the        *)
(* collected results are exactly the frames of the regions that succeeded, *)
(* in ranking order; the saved regional file holds their rows.             *)
C4_RegionalFailuresContained ==
    /\ Len(attempts) <= Len(top_regions)
    /\ \A i \in DOMAIN attempts : attempts[i].region_name = top_regions[i]
    /\ (pc \in {"quadrant", "done"} /\ national.raised = "none")
          => Len(attempts) = Len(top_regions)
    /\ Len(regional_forecasts) = Cardinality(Succeeded)
    /\ \A i \in DOMAIN attempts :
         IF i \in Succeeded
         THEN /\ attempts[i].forecast_df # None
              /\ regional_forecasts[Cardinality({j \in Succeeded : j <= i})]
                    = attempts[i].forecast_df[1]
              /\ \A k \in DOMAIN attempts[i].forecast_df[1] :
                    attempts[i].forecast_df[1][k].region_name = attempts[i].region_name
         ELSE attempts[i].forecast_df = None
    /\ files.regional_forecasts.written
          => files.regional_forecasts.content = Concat(regional_forecasts)

(* The first region of the ranking failed, the second was forecast and its *)
(* rows were saved                                                         *)
C4_Witness ==
    /\ pc = "done"
    /\ Len(attempts) = 2
    /\ ~Succeeds(attempts[1])
    /\ Succeeds(attempts[2])
    /\ files.regional_forecasts.written
    /\ files.regional_forecasts.content # <<>>

(* C5: when every candidate order fails to fit, grid_search ends in an     *)
(* error.  On the national series the error aborts the forecasting         *)
(* workflow; on a regional series the region is skipped (no frame of it is *)
(* collected) and the loop goes on through the ranking.                    *)
C5_AllCandidatesFail ==
    /\ (/\ national.raised # "pending"
        /\ national.fault \notin {"prepare_time_series", "test_stationarity"}
        /\ ~national.any_fit)
          => /\ national.raised = "grid_search"
             /\ ~RegionalStageEntered
             /\ ~ForecastFilesWritten
    /\ \A i \in DOMAIN attempts :
         (attempts[i].fit_called /\ ~attempts[i].any_fit)
            => /\ attempts[i].error = "KeyError"
               /\ attempts[i].forecast_df = None
               /\ \A j \in DOMAIN regional_forecasts :
                     regional_forecasts[j][1].region_name # attempts[i].region_name
               /\ pc \in {"regional", "quadrant", "done"}
               /\ pc # "regional" => Len(attempts) = Len(top_regions)

(* No candidate fitted the first region's series; the second region was    *)
(* forecast after it and the run ended normally                            *)
C5_Witness ==
    /\ pc = "done"
    /\ outcome \in {"True", "returned", "completed"}
    /\ Len(attempts) = 2
    /\ attempts[1].fit_called /\ ~attempts[1].any_fit
    /\ attempts[2].forecast_df # None

(* The forecasting part of the run ended in an exception of the national   *)
(* stage                                                                   *)
ForecastingRaised == national.raised \notin {"pending", "none"}

(* C15: every region that yields no forecast is reported with the reason,  *)
(* and the reason is the actual cause: "insufficient data" is reported     *)
(* exactly for the regions whose history was too short, not for a region   *)
(* on which the model fit was tried and failed.                            *)
C15_SkipReasonIsTheCause ==
    \A i \in DOMAIN attempts :
        attempts[i].forecast_df = None =>
            /\ attempts[i].report # "ok"
            /\ attempts[i].report = "insufficient data" <=> ~attempts[i].fit_called

(* C13: in every finished pipeline run (run_phase4 or run_analysis.main)   *)
(* in which forecasting failed, the quadrant analysis was still called on  *)
(* the loaded tables.                                                      *)
C13_QuadrantRunsAfterForecastFailure ==
    (/\ pc = "done"
     /\ entry \in {"run_phase4", "run_analysis"}
     /\ ForecastingRaised)
    => quadrant # "not called"

(* C16: a finished run whose national stage failed ends with a failure     *)
(* status (False from run_phase4, an exception out of the entry point) and *)
(* does not report that the analyses completed successfully.               *)
C16_NationalFailureSurfaced ==
    (pc = "done" /\ ForecastingRaised) => outcome \in {"False", "uncaught"}

-----------------------------------------------------------------------------
(* SpecRank: the workflow on tables in which a region may have two rows in *)
(* the most recent period (load_data reads the interim file as it is; only *)
(* clean_data removes repeated (region_name, year) rows)                   *)

RankShapes == {"ended", "full", "doubled"}

RankRows(shape, y) ==
    IF shape = "doubled"
    THEN (IF y = MaxYear THEN 2
          ELSE IF y >= MaxYear - MinRows + 1 THEN 1 ELSE 0)
    ELSE ShapeRows(shape, y)

RankFrames ==
    {[rows |-> [k \in RowKeys |-> RankRows(shape[k[1]], k[2])], level |-> level] :
        shape \in [Regions -> RankShapes], level \in [Regions -> 1..Cardinality(Regions)]}

InitRank ==
    /\ expenditure_df \in RankFrames
    /\ entry \in Entries
    /\ config \in Configs
    /\ pc = "national"
    /\ national = Pending
    /\ top_regions = <<>>
    /\ attempts = <<>>
    /\ regional_forecasts = <<>>
    /\ files = NoFiles
    /\ outcome = "running"
    /\ quadrant = "not called"
    /\ GridOff /\ result = Off /\ QuadOff /\ JoinOff
    /\ VerdictOff /\ CliOff

SpecRank == InitRank /\ [][Next]_vars

(* The regions that have a row in the most recent period of the table *)
PresentInLatest ==
    {r \in Regions : expenditure_df.rows[<<r, MaxOf(YearsIn(expenditure_df.rows))>>] > 0}

Min2(a, b) == IF a < b THEN a ELSE b

(* C17: once the regional stage has finished, the regions attempted are    *)
(* exactly the min(K, n) distinct regions with the largest expenditure in  *)
(* the most recent period, in descending order of that expenditure, each   *)
(* attempted at most once.  The selection takes the K largest ROWS of the  *)
(* most recent period; with two rows for one region in that period the     *)
(* region is attempted twice and another region not at all.                *)
C17_TopRegionsAttemptedOnce ==
    (pc \in {"quadrant", "done"} /\ national.raised = "none") =>
        LET level == expenditure_df.level
            name(i) == attempts[i].region_name
        IN  /\ Len(attempts) = Min2(config.top_n_regions, Cardinality(PresentInLatest))
            /\ \A i \in DOMAIN attempts : name(i) \in PresentInLatest
            /\ \A i, j \in DOMAIN attempts : i < j =>
                   /\ name(i) # name(j)
                   /\ level[name(i)] >= level[name(j)]
            /\ \A r \in PresentInLatest :
                   (\A i \in DOMAIN attempts : name(i) # r) =>
                       \A i \in DOMAIN attempts : level[r] <= level[name(i)]

-----------------------------------------------------------------------------
(* SpecRerun: the workflow started where an earlier run has left its       *)
(* output files                                                            *)

(* A row an earlier run wrote *)
EarlierRow == [run |-> "earlier"]

EarlierFiles ==
    [national_forecast |-> Written(<<EarlierRow>>),
     regional_forecasts |-> Written(<<EarlierRow>>),
     model_info |-> Written(<<EarlierRow>>),
     market_segmentation |-> Written(<<EarlierRow>>)]

InitRerun ==
    /\ expenditure_df \in FlowFrames
    /\ entry \in Entries
    /\ config \in Configs
    /\ pc = "national"
    /\ national = Pending
    /\ top_regions = <<>>
    /\ attempts = <<>>
    /\ regional_forecasts = <<>>
    /\ files = EarlierFiles
    /\ outcome = "running"
    /\ quadrant = "not called"
    /\ GridOff /\ result = Off /\ QuadOff /\ JoinOff
    /\ VerdictOff /\ CliOff

SpecRerun == InitRerun /\ [][Next]_vars

(* The file holds a row of the earlier run *)
HoldsEarlierRow(file) ==
    \E i \in DOMAIN file.content : "run" \in DOMAIN file.content[i]

(* The forecasting part of the run went through to the end, saving on *)
ForecastingCompleted ==
    /\ pc \in {"quadrant", "done"}
    /\ national.raised = "none"
    /\ config.save_forecasts

(* C23: after a completed forecasting run each of the three output tables  *)
(* holds only rows of that run, also when the run produced no regional     *)
(* forecast.  save_results writes the regional table only if there is a    *)
(* regional frame; with none, the file of the earlier run stays as it was. *)
C23_OutputsReplaced ==
    ForecastingCompleted =>
        /\ ~HoldsEarlierRow(files.national_forecast)
        /\ ~HoldsEarlierRow(files.regional_forecasts)
        /\ ~HoldsEarlierRow(files.model_info)

-----------------------------------------------------------------------------
(* SpecFresh: the regional stage and what follows it, with the forecaster  *)
(* the national stage returned followed as an object (self)                *)

FreshFrames == {fr \in FlowFrames : \A r \in Regions : fr.level[r] = 1}

InitFresh ==
    /\ expenditure_df \in FreshFrames
    /\ entry \in Entries
    /\ config \in Configs
    /\ pc = "regional_start"
    /\ \E timeseries \in UnitSeriesOf(ARIMAForecaster(config.arima)) :
         \E r \in {forecast_national_expenditure(expenditure_df, config,
                                                  timeseries, "none", TRUE)} :
            /\ r.raised = "none"
            /\ national = [raised |-> r.raised, fault |-> "none",
                           any_fit |-> AnyFit(timeseries),
                           national_ts |-> r.national_ts,
                           forecast_df |-> r.forecast_df,
                           forecaster |-> r.forecaster[1]]
            /\ self = r.forecaster[1]
    /\ top_regions = <<>>
    /\ attempts = <<>>
    /\ regional_forecasts = <<>>
    /\ files = NoFiles
    /\ outcome = "running"
    /\ quadrant = "not called"
    /\ call = Off /\ result = Off /\ QuadOff /\ JoinOff
    /\ VerdictOff /\ CliOff

NextFresh == RegionalStart \/ RegionalIteration \/ SaveResults \/ QuadrantStage

SpecFresh == InitFresh /\ [][NextFresh]_vars

(* C27: through the regional stage the national forecaster keeps the      *)
(* best_order, best_model and best_ic it selected on the national series, *)
(* however many regions were forecast or skipped, and the model           *)
(* diagnostics saved after the regional stage are those of the national   *)
(* model.                                                                 *)
C27_NationalForecasterUntouched ==
    /\ self = national.forecaster
    /\ files.model_info.written =>
          files.model_info.content =
              <<[order |-> national.forecaster.best_order,
                 aic |-> national.forecaster.best_model[1].aic,
                 bic |-> national.forecaster.best_model[1].bic,
                 p |-> national.forecaster.best_order[1],
                 d |-> national.forecaster.best_order[2],
                 q |-> national.forecaster.best_order[3]]>>

(* Diagnostics saved after two regions were forecast *)
C27_Witness ==
    /\ files.model_info.written
    /\ Len(attempts) = 2
    /\ \A i \in DOMAIN attempts : attempts[i].forecast_df # None

-----------------------------------------------------------------------------
(* SpecVerdict: forecast_national_expenditure run twice on one national    *)
(* input, once with adfuller finding the series stationary and once not    *)

(* Tables in which both regions have the same history *)
VerdictFrames ==
    {fr \in FlowFrames :
        /\ \A r \in Regions : fr.level[r] = 1
        /\ \A y \in Years : fr.rows[<<"A", y>>] = fr.rows[<<"B", y>>]}

VerdictInputs ==
    UNION {{[arima |-> arima, timeseries |-> timeseries, fault |-> fault,
             runs |-> [adf \in BOOLEAN |-> None]] :
                timeseries \in UnitSeriesOf(ARIMAForecaster(arima)), fault \in Faults} :
           arima \in ArimaConfigs}

InitVerdict ==
    /\ expenditure_df \in VerdictFrames
    /\ verdicts \in VerdictInputs
    /\ GridOff /\ result = Off /\ FlowOff /\ QuadOff /\ JoinOff /\ CliOff

NationalRun ==
    /\ \E adf \in BOOLEAN :
         /\ verdicts.runs[adf] = None
         /\ \E r \in {forecast_national_expenditure(
                           expenditure_df,
                           [arima |-> verdicts.arima, forecast_horizon_years |-> 1],
                           verdicts.timeseries, verdicts.fault, adf)} :
               verdicts' = [verdicts EXCEPT !.runs[adf] =
                               Some([is_stationary |-> adf, raised |-> r.raised,
                                     forecaster |-> r.forecaster,
                                     forecast_df |-> r.forecast_df])]
    /\ UNCHANGED <<expenditure_df, exceptVerdict>>

NextVerdict == NationalRun

SpecVerdict == InitVerdict /\ [][NextVerdict]_vars

(* C24: two runs on the same national series that differ only in the      *)
(* verdict of the stationarity test end the same way, search the same     *)
(* candidate orders (the whole configured space, every differencing order *)
(* 0..max_d) and select the same model.                                   *)
C24_VerdictDoesNotGateSearch ==
    (verdicts.runs[TRUE] # None /\ verdicts.runs[FALSE] # None) =>
        LET stationary == verdicts.runs[TRUE][1]
            nonstationary == verdicts.runs[FALSE][1]
        IN  /\ stationary.raised = nonstationary.raised
            /\ stationary.forecaster = nonstationary.forecaster
            /\ stationary.forecast_df = nonstationary.forecast_df
            /\ \A run \in {stationary, nonstationary} :
                  run.forecaster # None =>
                      OrdersOf(run.forecaster[1]) = OrdersOf(ARIMAForecaster(verdicts.arima))

(* Both runs selected a model that differences the series, from a space   *)
(* with more than one differencing order                                  *)
C24_Witness ==
    /\ verdicts.runs[TRUE] # None /\ verdicts.runs[FALSE] # None
    /\ verdicts.arima.max_d >= 1
    /\ verdicts.runs[TRUE][1].raised = "none"
    /\ verdicts.runs[TRUE][1].forecaster[1].best_order[2] >= 1

-----------------------------------------------------------------------------
(* SpecQuad: the three steps of the quadrant analysis on any cross-section *)
(* of up to three regions, with any choice of threshold methods            *)

RegionNames == <<"A", "B", "C">>

(* The rows of the regions r with tfr[r] > 0, in table order *)
RECURSIVE CrossSection(_, _, _)
CrossSection(tfr, expenditure, i) ==
    IF i > Len(RegionNames) THEN <<>>
    ELSE (IF tfr[RegionNames[i]] > 0
          THEN <<[region_name |-> RegionNames[i], tfr |-> tfr[RegionNames[i]],
                  expenditure |-> expenditure[RegionNames[i]]]>>
          ELSE <<>>)
         \o CrossSection(tfr, expenditure, i + 1)

NameSet == {RegionNames[i] : i \in DOMAIN RegionNames}

CrossSections ==
    {CrossSection(tfr, expenditure, 1) :
        tfr \in [NameSet -> 0..MaxVal], expenditure \in [NameSet -> 1..MaxVal]}

(* A fixed threshold lies below, at or above any value; it is left at 0    *)
(* where the method does not read it                                       *)
QuadrantConfigs ==
    {c \in [tfr_threshold_method : Methods, expenditure_threshold_method : Methods,
            tfr_threshold_fixed : 0..(MaxVal + 1),
            expenditure_threshold_fixed : 0..(MaxVal + 1)] :
        /\ c.tfr_threshold_method # "fixed" => c.tfr_threshold_fixed = 0
        /\ c.expenditure_threshold_method # "fixed" => c.expenditure_threshold_fixed = 0}

InitQuad ==
    /\ \E conf \in QuadrantConfigs : analyzer = QuadrantAnalyzer(conf)
    /\ merged \in CrossSections
    /\ thresholds = None
    /\ segmented_df = None
    /\ stats = None
    /\ rerun = None
    /\ saved = None
    /\ GridOff /\ FlowOff /\ JoinOff /\ expenditure_df = Off /\ result = Off
    /\ VerdictOff /\ CliOff

CalculateThresholds ==
    /\ thresholds = None
    /\ thresholds' = Some(calculate_thresholds(analyzer, merged))
    /\ UNCHANGED <<analyzer, merged, segmented_df, stats, rerun, saved, exceptQuad>>

AssignSegments ==
    /\ thresholds # None
    /\ segmented_df = None
    /\ segmented_df' = Some(assign_segments(merged, thresholds[1].tfr_threshold,
                                            thresholds[1].exp_threshold))
    /\ merged' = CallerFrame(merged, segmented_df'[1])
    /\ UNCHANGED <<analyzer, thresholds, stats, rerun, saved, exceptQuad>>

SegmentStatistics ==
    /\ segmented_df # None
    /\ stats = None
    /\ stats' = Some(get_segment_statistics(segmented_df[1]))
    /\ UNCHANGED <<analyzer, merged, thresholds, segmented_df, rerun, saved, exceptQuad>>

(* The three steps once more, on the same analyzer and cross-section *)
RunAgain ==
    /\ stats # None
    /\ rerun = None
    /\ \E th \in {calculate_thresholds(analyzer, merged)} :
         \E seg \in {assign_segments(merged, th.tfr_threshold, th.exp_threshold)} :
            /\ rerun' = Some([thresholds |-> th, segmented_df |-> seg,
                              stats |-> get_segment_statistics(seg)])
            /\ merged' = CallerFrame(merged, seg)
    /\ UNCHANGED <<analyzer, thresholds, segmented_df, stats, saved, exceptQuad>>

(* The matplotlib call of the two plots that raises, if any *)
PlotFaults == {"none", "plot_quadrant", "plot_segment_distribution"}

(* The tail of run_quadrant_analysis: the two plots, then the two to_csv   *)
(* calls.  No step of it looks at the number of rows.                     *)
SaveTables ==
    /\ stats # None
    /\ saved = None
    /\ \E fault \in PlotFaults :
         saved' = Some([raised |-> fault,
                        market_segmentation |->
                            IF fault = "none" THEN Written(segmented_df[1]) ELSE NoFile,
                        segment_statistics |->
                            IF fault = "none" THEN Written(stats[1]) ELSE NoFile])
    /\ UNCHANGED <<analyzer, merged, thresholds, segmented_df, stats, rerun, exceptQuad>>

NextQuad ==
    \/ CalculateThresholds
    \/ AssignSegments
    \/ SegmentStatistics
    \/ RunAgain
    \/ SaveTables

SpecQuad == InitQuad /\ [][NextQuad]_vars

-----------------------------------------------------------------------------
(* Properties of SpecQuad *)

Segmented == segmented_df[1]
HighTfr(row) == row.tfr * thresholds[1].tfr_threshold.den >= thresholds[1].tfr_threshold.num
HighExp(row) ==
    row.expenditure * thresholds[1].exp_threshold.den >= thresholds[1].exp_threshold.num

(* C7: assign_segments gives every region of the cross-section exactly one *)
(* label (one output row per input row, same regions), and that label is   *)
(* one of the four segment labels, never a fifth value, whatever the tfr,  *)
(* expenditure and thresholds are.                                         *)
C7_ExactlyOneOfFourLabels ==
    segmented_df # None =>
        /\ Len(Segmented) = Len(merged)
        /\ \A i \in DOMAIN Segmented :
             /\ Segmented[i].region_name = merged[i].region_name
             /\ \E k \in DOMAIN choices : Segmented[i].segment = choices[k]

(* Three regions in three different segments, thresholds being the means   *)
C7_Witness ==
    /\ segmented_df # None
    /\ Len(Segmented) = 3
    /\ Cardinality({Segmented[i].segment : i \in DOMAIN Segmented}) = 3
    /\ analyzer.tfr_threshold_method = "mean"
    /\ analyzer.exp_threshold_method = "mean"

(* C8: a region is labelled high-fertility (Stars, Developing) iff its tfr *)
(* >= tfr_threshold and high-spend (Stars, Cash Cows) iff its expenditure  *)
(* >= exp_threshold; a value equal to its threshold is high, whatever the  *)
(* other dimension is.                                                     *)
C8_HighIffAtLeastThreshold ==
    segmented_df # None =>
        \A i \in DOMAIN Segmented :
            /\ Segmented[i].segment \in {"Stars", "Developing"} <=> HighTfr(Segmented[i])
            /\ Segmented[i].segment \in {"Stars", "Cash Cows"} <=> HighExp(Segmented[i])

(* A region whose tfr equals the median threshold while its expenditure is *)
(* below its threshold, and one whose expenditure equals the threshold     *)
(* while its tfr is below                                                  *)
C8_Witness ==
    /\ segmented_df # None
    /\ analyzer.tfr_threshold_method = "median"
    /\ \E i \in DOMAIN Segmented :
         /\ Segmented[i].tfr * thresholds[1].tfr_threshold.den
               = thresholds[1].tfr_threshold.num
         /\ ~HighExp(Segmented[i])
         /\ Segmented[i].segment = "Developing"
    /\ \E i \in DOMAIN Segmented :
         /\ Segmented[i].expenditure * thresholds[1].exp_threshold.den
               = thresholds[1].exp_threshold.num
         /\ ~HighTfr(Segmented[i])
         /\ Segmented[i].segment = "Cash Cows"

Members(label) == {i \in DOMAIN Segmented : Segmented[i].segment = label}
StatsRows(label) == {k \in DOMAIN stats[1] : stats[1][k].segment = label}

(* C10: the statistics table has exactly one row for every segment with at *)
(* least one member and none for a segment without, a row's count is the   *)
(* number of regions of its segment, and the counts add up to the number   *)
(* of rows of the cross-section.                                           *)
C10_SegmentCounts ==
    stats # None =>
        /\ \A k \in DOMAIN stats[1] :
             /\ Members(stats[1][k].segment) # {}
             /\ stats[1][k].count = Cardinality(Members(stats[1][k].segment))
             /\ StatsRows(stats[1][k].segment) = {k}
        /\ \A i \in DOMAIN Segmented : StatsRows(Segmented[i].segment) # {}
        /\ SumSeq([k \in DOMAIN stats[1] |-> stats[1][k].count]) = Len(merged)

(* Three regions in two segments: one row counts two members, two segments *)
(* have no row                                                             *)
C10_Witness ==
    /\ stats # None
    /\ Len(merged) = 3
    /\ Len(stats[1]) = 2
    /\ \E k \in DOMAIN stats[1] : stats[1][k].count = 2

C18_EmptyJoinWritesNothing ==
    (saved # None /\ merged = <<>>) =>
        /\ saved[1].raised # "none"
        /\ ~saved[1].market_segmentation.written
        /\ ~saved[1].segment_statistics.written

-----------------------------------------------------------------------------
(* SpecThreshold: the analysis under configurations that leave keys out    *)
(* and that name methods other than the three known ones, on               *)
(* cross-sections of up to two regions (tfr in tenths)                     *)

NoKey == [k \in {} |-> 0]

(* The entry of a configuration for a key: none, or the value *)
Entry(key, opt) == IF opt = None THEN NoKey ELSE key :> opt[1]

MethodOptions == {None} \cup {Some(m) : m \in Methods \cup {"quantile"}}
FixedOptions == {None, Some(1)}

PartialConfigs ==
    {Entry("tfr_threshold_method", tm) @@ Entry("expenditure_threshold_method", em)
       @@ Entry("tfr_threshold_fixed", tf) @@ Entry("expenditure_threshold_fixed", ef) :
        tm \in MethodOptions, em \in MethodOptions,
        tf \in FixedOptions, ef \in FixedOptions}

InitThreshold ==
    /\ config \in PartialConfigs
    /\ analyzer = QuadrantAnalyzer(config)
    /\ merged \in {cs \in CrossSections : Len(cs) <= 2}
    /\ thresholds = None
    /\ segmented_df = None
    /\ stats = None
    /\ rerun = None
    /\ saved = None
    /\ entry = Off /\ pc = Off /\ national = Off /\ top_regions = Off
    /\ attempts = Off /\ regional_forecasts = Off /\ files = Off
    /\ outcome = Off /\ quadrant = Off
    /\ GridOff /\ JoinOff /\ expenditure_df = Off /\ result = Off
    /\ VerdictOff /\ CliOff

SpecThreshold == InitThreshold /\ [][NextQuad]_vars

(* The threshold of a column by the method and the fixed value the        *)
(* configuration gives for that dimension alone                           *)
ThresholdBy(method_key, fixed_key, default_fixed, col) ==
    LET method == IF method_key \in DOMAIN config THEN config[method_key] ELSE "median"
        fixed == IF fixed_key \in DOMAIN config THEN config[fixed_key] ELSE default_fixed
    IN  IF method = "median" THEN Median(Column(merged, col))
        ELSE IF method = "mean" THEN Mean(Column(merged, col))
        ELSE Frac(fixed, 1)

-----------------------------------------------------------------------------
(* SpecScenario: the same three steps on cross-sections of four regions    *)
(* whose tfr is 1.5 or 3.0 (in hundredths: 150, 300) and whose expenditure *)
(* is 5000 or 15000, the fixed thresholds being the defaults 2.1 and 10000 *)

ScenarioNames == <<"A", "B", "C", "D">>

ScenarioSections ==
    {[i \in DOMAIN ScenarioNames |->
        [region_name |-> ScenarioNames[i], tfr |-> tfr[i],
         expenditure |-> expenditure[i]]] :
        tfr \in [DOMAIN ScenarioNames -> {150, 300}],
        expenditure \in [DOMAIN ScenarioNames -> {5000, 15000}]}

ScenarioConfigs ==
    [tfr_threshold_method : Methods, expenditure_threshold_method : Methods,
     tfr_threshold_fixed : {210}, expenditure_threshold_fixed : {10000}]

InitScenario ==
    /\ \E conf \in ScenarioConfigs : analyzer = QuadrantAnalyzer(conf)
    /\ merged \in ScenarioSections
    /\ thresholds = None
    /\ segmented_df = None
    /\ stats = None
    /\ rerun = None
    /\ saved = None
    /\ GridOff /\ FlowOff /\ JoinOff /\ expenditure_df = Off /\ result = Off
    /\ VerdictOff /\ CliOff

SpecScenario == InitScenario /\ [][NextQuad]_vars

-----------------------------------------------------------------------------
(* Properties of SpecScenario *)

(* A(3.0, 15000), B(1.5, 15000), C(3.0, 5000), D(1.5, 5000) *)
ScenarioB ==
    <<[region_name |-> "A", tfr |-> 300, expenditure |-> 15000],
      [region_name |-> "B", tfr |-> 150, expenditure |-> 15000],
      [region_name |-> "C", tfr |-> 300, expenditure |-> 5000],
      [region_name |-> "D", tfr |-> 150, expenditure |-> 5000]>>

(* The k-th smallest entry of xs *)
Kth(xs, k) ==
    CHOOSE v \in {xs[i] : i \in DOMAIN xs} :
        /\ Cardinality({i \in DOMAIN xs : xs[i] < v}) < k
        /\ Cardinality({i \in DOMAIN xs : xs[i] <= v}) >= k

(* t is the middle entry of xs, or the mean of its two middle entries *)
IsMedianOf(t, xs) ==
    /\ t.den # 0
    /\ IF Len(xs) % 2 = 1
       THEN t.num = Kth(xs, (Len(xs) + 1) \div 2) * t.den
       ELSE 2 * t.num = (Kth(xs, Len(xs) \div 2) + Kth(xs, Len(xs) \div 2 + 1)) * t.den

SegmentOf(region_name) ==
    LET i == CHOOSE j \in DOMAIN segmented_df[1] :
                segmented_df[1][j].region_name = region_name
    IN  segmented_df[1][i].segment

(* C11: with the median method a threshold is the median of its column     *)
(* (the mean of the two middle values of an even count).  For A(3.0,       *)
(* 15000), B(1.5, 15000), C(3.0, 5000), D(1.5, 5000) the thresholds are    *)
(* 2.25 and 10000, A is high/high, B low/high, C high/low, D low/low, and  *)
(* each of the four segments has count 1.                                  *)
C11_MedianScenario ==
    /\ (thresholds # None /\ analyzer.tfr_threshold_method = "median")
          => IsMedianOf(thresholds[1].tfr_threshold, Column(merged, "tfr"))
    /\ (thresholds # None /\ analyzer.exp_threshold_method = "median")
          => IsMedianOf(thresholds[1].exp_threshold, Column(merged, "expenditure"))
    /\ (/\ merged = ScenarioB
        /\ analyzer.tfr_threshold_method = "median"
        /\ analyzer.exp_threshold_method = "median")
          => /\ thresholds # None =>
                  /\ thresholds[1].tfr_threshold.num
                        = 225 * thresholds[1].tfr_threshold.den
                  /\ thresholds[1].exp_threshold.num
                        = 10000 * thresholds[1].exp_threshold.den
             /\ segmented_df # None =>
                  /\ SegmentOf("A") = "Stars"
                  /\ SegmentOf("B") = "Cash Cows"
                  /\ SegmentOf("C") = "Developing"
                  /\ SegmentOf("D") = "Saturated"
             /\ stats # None =>
                  /\ Len(stats[1]) = 4
                  /\ \A k \in DOMAIN stats[1] : stats[1][k].count = 1

(* The analysis of the four regions with both medians has run to its       *)
(* statistics                                                              *)
C11_Witness ==
    /\ merged = ScenarioB
    /\ analyzer.tfr_threshold_method = "median"
    /\ analyzer.exp_threshold_method = "median"
    /\ thresholds # None
    /\ stats # None
    /\ Len(stats[1]) = 4

-----------------------------------------------------------------------------
(* SpecMetrics: get_metrics on a forecaster after fit, for any observed    *)
(* and fitted values of up to two periods.  A float is finite (a           *)
(* fraction), inf or nan.                                                  *)

Abs(x) == IF x < 0 THEN 0 - x ELSE x

Finite(n, d) == [kind |-> "finite", num |-> n, den |-> d]
FloatInf == [kind |-> "inf", num |-> 1, den |-> 0]
FloatNaN == [kind |-> "nan", num |-> 0, den |-> 0]

RECURSIVE ProdSeq(_)
ProdSeq(xs) == IF xs = <<>> THEN 1 ELSE Head(xs) * ProdSeq(Tail(xs))

(* np.mean(np.abs((actual - fitted) / actual)) of float arrays: x / 0 is   *)
(* inf, 0 / 0 is nan, with a RuntimeWarning that                           *)
(* warnings.filterwarnings('ignore') hides; a mean over a nan is nan, over *)
(* an inf it is inf                                                        *)
mean_abs_ratio(actual, fitted) ==
    IF \E i \in DOMAIN actual : actual[i] = 0 /\ fitted[i] = actual[i]
    THEN FloatNaN
    ELSE IF \E i \in DOMAIN actual : actual[i] = 0
    THEN FloatInf
    ELSE Finite(SumSeq([i \in DOMAIN actual |->
                          Abs(actual[i] - fitted[i])
                            * (ProdSeq(actual) \div actual[i])]),
                Len(actual) * ProdSeq(actual))

(* ARIMAForecaster.get_metrics with fitted = None; fittedvalues is what    *)
(* the fitted model holds for the series                                   *)
get_metrics(f, actual, fittedvalues) ==
    IF f.best_model = None
    THEN [raised |-> "AttributeError", ret |-> None]
    ELSE LET errors == [i \in DOMAIN actual |-> actual[i] - fittedvalues[i]]
             mse == Finite(SumSeq([i \in DOMAIN errors |-> errors[i] * errors[i]]),
                           Len(actual))
             mae == Finite(SumSeq([i \in DOMAIN errors |-> Abs(errors[i])]),
                           Len(actual))
             ratio == mean_abs_ratio(actual, fittedvalues)
         IN  [raised |-> "none",
              ret |-> Some([MSE |-> mse, RMSE |-> [sqrt |-> mse], MAE |-> mae,
                            MAPE |-> [ratio EXCEPT !.num = 100 * @]])]

(* Observed values: expenditure of one or two periods, zero included *)
Observed == UNION {[1..n -> 0..MaxVal] : n \in 1..2}

InitMetrics ==
    /\ \E arima \in WorkflowArima :
         \E timeseries \in UnitSeriesOf(ARIMAForecaster(arima)) :
            self = fit(ARIMAForecaster(arima), timeseries, None).self
    /\ call = Idle
    /\ expenditure_df = Off /\ result = Off /\ FlowOff /\ QuadOff /\ JoinOff
    /\ VerdictOff /\ CliOff

GetMetricsCall ==
    /\ call.op = "idle"
    /\ \E actual \in Observed :
         \E fittedvalues \in [DOMAIN actual -> 0..MaxVal] :
            \E out \in {get_metrics(self, actual, fittedvalues)} :
               call' = [Idle EXCEPT !.op = "get_metrics",
                                    !.actual = actual,
                                    !.raised = out.raised,
                                    !.metrics = out.ret,
                                    !.pre = Some(self.best_order)]
    /\ UNCHANGED <<self, exceptGrid>>

NextMetrics == GetMetricsCall \/ Return

SpecMetrics == InitMetrics /\ [][NextMetrics]_vars

(* C25: if an observed value passed to get_metrics is exactly zero, the    *)
(* call ends in an error and returns no metrics record.  The division is a *)
(* division of float arrays: it gives inf or nan under a warning that is   *)
(* switched off, and the record is returned with that MAPE.                *)
C25_ZeroObservedIsFatal ==
    (call.op = "get_metrics" /\ \E i \in DOMAIN call.actual : call.actual[i] = 0)
    => (call.raised # "none" /\ call.metrics = None)

-----------------------------------------------------------------------------
(* SpecJoin: the join at the head of run_quadrant_analysis, on cleaned     *)
(* tables (at most one row per region and year) that have rows in the last *)
(* two years.  The value of a cell is represented by the cell it is read   *)
(* from, so that a joined row tells the period of each of its values.      *)

Cell(region_name, year) == [region_name |-> region_name, year |-> year]

JoinFrames ==
    {[rows |-> [k \in RowKeys |-> IF k \in cells THEN 1 ELSE 0],
      level |-> [r \in Regions |-> 1]] :
        cells \in SUBSET (Regions \X {MaxYear - 1, MaxYear})}

(* The first year of a table *)
EarliestYear(df) ==
    IF YearsIn(df.rows) = {} THEN 0
    ELSE CHOOSE m \in YearsIn(df.rows) : \A y \in YearsIn(df.rows) : m <= y

(* df['year'].max(); of a table without rows it is NaN (0), which no year  *)
(* equals                                                                  *)
LatestYear(df) == IF YearsIn(df.rows) = {} THEN 0 ELSE MaxOf(YearsIn(df.rows))

(* pd.merge(tfr_latest, exp_latest, on='region_name', how='inner') of the  *)
(* rows of year tfr_year and of year exp_year                              *)
RECURSIVE MergeInner(_, _, _, _, _)
MergeInner(tfr, tfr_year, exp, exp_year, i) ==
    IF i > Len(RegionOrder) THEN <<>>
    ELSE (IF /\ tfr_year # 0 /\ exp_year # 0
             /\ tfr.rows[<<RegionOrder[i], tfr_year>>] > 0
             /\ exp.rows[<<RegionOrder[i], exp_year>>] > 0
          THEN <<[region_name |-> RegionOrder[i],
                  tfr |-> Cell(RegionOrder[i], tfr_year),
                  expenditure |-> Cell(RegionOrder[i], exp_year)]>>
          ELSE <<>>)
         \o MergeInner(tfr, tfr_year, exp, exp_year, i + 1)

InitJoin ==
    /\ tfr_df \in JoinFrames
    /\ expenditure_df \in JoinFrames
    /\ merged_df = None
    /\ GridOff /\ FlowOff /\ QuadOff /\ result = Off
    /\ VerdictOff /\ CliOff

MergeLatest ==
    /\ merged_df = None
    /\ LET latest_tfr_year == LatestYear(tfr_df)
           latest_exp_year == LatestYear(expenditure_df)
       IN  merged_df' = Some(MergeInner(tfr_df, latest_tfr_year,
                                        expenditure_df, latest_exp_year, 1))
    /\ UNCHANGED <<tfr_df, expenditure_df, exceptJoin>>

NextJoin == MergeLatest

SpecJoin == InitJoin /\ [][NextJoin]_vars

-----------------------------------------------------------------------------
(* Properties of SpecJoin *)

CommonYears == YearsIn(tfr_df.rows) \cap YearsIn(expenditure_df.rows)

-----------------------------------------------------------------------------
(* main.py: the command-line pipeline.  Phase 3 (data engineering) and     *)
(* Phase 4 (analysis) are each run unless skipped on the command line; a   *)
(* phase reports failure by returning False, and main turns the two flags  *)
(* into the exit status of the process.                                    *)
(*                                                                         *)
(* What the steps of the phases do to files and to the database is outside *)
(* main.py: a world fixes, for each step, whether it returns or raises     *)
(* (and, for setup and load_to_database, which truth value it returns).    *)

Returns == {"returned", "raised"}

Answers == {"True", "False", "raised"}

Phase4Calls == {"Config", "load_data", "forecast_national_expenditure",
                "run_quadrant_analysis"}

Worlds ==
    [prepare_all : Returns, clean_all : Returns,
     setup : Answers, load_to_database : Answers,
     phase4_raises : Phase4Calls \cup {"none"}]

(* argparse: two store_true flags *)
Args == [skip_phase3 : BOOLEAN, skip_phase4 : BOOLEAN]

run_phase3_unchecked_setup(world) ==
    IF world.prepare_all = "raised" THEN FALSE
    ELSE IF world.clean_all = "raised" THEN FALSE
    ELSE IF world.setup = "raised" THEN FALSE
    ELSE IF world.load_to_database # "True" THEN FALSE
    ELSE TRUE

(* run_phase3: the four steps in order inside one try; a step that raises, *)
(* or a setup() or load_to_database() that answers False (turned into an   *)
(* exception), ends in the except branch, which returns False.             *)
run_phase3(world) ==
    IF world.prepare_all = "raised" THEN FALSE
    ELSE IF world.clean_all = "raised" THEN FALSE
    ELSE IF world.setup # "True" THEN FALSE
    ELSE IF world.load_to_database # "True" THEN FALSE
    ELSE TRUE

(* run_phase4: everything inside one try; any exception returns False *)
run_phase4(world) == world.phase4_raises = "none"

(* main up to the first phase: both flags default to True *)
InitCli ==
    /\ \E a \in Args, w \in Worlds :
         cli = [args |-> a, world |-> w, pc |-> "phase3",
                phase3_success |-> TRUE, phase4_success |-> TRUE,
                started |-> {}, status |-> None, summary |-> None]
    /\ GridOff /\ expenditure_df = Off /\ result = Off /\ FlowOff /\ QuadOff
    /\ JoinOff /\ VerdictOff

(* if not args.skip_phase3: phase3_success = run_phase3(); a failure exits *)
(* with status 1 on the spot                                               *)
RunPhase3 ==
    /\ cli # Off /\ cli.pc = "phase3" /\ ~cli.args.skip_phase3
    /\ \E ok \in {run_phase3(cli.world)} :
         cli' = [cli EXCEPT !.started = @ \cup {3},
                            !.phase3_success = ok,
                            !.status = IF ok THEN @ ELSE Some(1),
                            !.pc = IF ok THEN "phase4" ELSE "exited"]
    /\ UNCHANGED exceptCli

SkipPhase3 ==
    /\ cli # Off /\ cli.pc = "phase3" /\ cli.args.skip_phase3
    /\ cli' = [cli EXCEPT !.pc = "phase4"]
    /\ UNCHANGED exceptCli

(* if not args.skip_phase4: phase4_success = run_phase4(); a failure exits *)
(* with status 1 on the spot                                               *)
RunPhase4 ==
    /\ cli # Off /\ cli.pc = "phase4" /\ ~cli.args.skip_phase4
    /\ \E ok \in {run_phase4(cli.world)} :
         cli' = [cli EXCEPT !.started = @ \cup {4},
                            !.phase4_success = ok,
                            !.status = IF ok THEN @ ELSE Some(1),
                            !.pc = IF ok THEN "summary" ELSE "exited"]
    /\ UNCHANGED exceptCli

SkipPhase4 ==
    /\ cli # Off /\ cli.pc = "phase4" /\ cli.args.skip_phase4
    /\ cli' = [cli EXCEPT !.pc = "summary"]
    /\ UNCHANGED exceptCli

(* print_final_summary's closing banner *)
print_final_summary(phase3_success, phase4_success) ==
    IF phase3_success /\ phase4_success
    THEN "ALL PIPELINES COMPLETED SUCCESSFULLY"
    ELSE "PIPELINE COMPLETED WITH ERRORS"

(* print_final_summary(...); sys.exit(0 if both flags else 1) *)
FinalSummary ==
    /\ cli # Off /\ cli.pc = "summary"
    /\ cli' = [cli EXCEPT
                 !.summary = Some(print_final_summary(cli.phase3_success,
                                                      cli.phase4_success)),
                 !.status = Some(IF cli.phase3_success /\ cli.phase4_success
                                 THEN 0 ELSE 1),
                 !.pc = "exited"]
    /\ UNCHANGED exceptCli

NextCli == RunPhase3 \/ SkipPhase3 \/ RunPhase4 \/ SkipPhase4 \/ FinalSummary

SpecCli == InitCli /\ [][NextCli]_vars

-----------------------------------------------------------------------------
(* Properties of SpecCli *)

(* Some step of Phase 3 does not go through in this world *)
Phase3Fails ==
    \/ cli.world.prepare_all = "raised" \/ cli.world.clean_all = "raised"
    \/ cli.world.setup # "True" \/ cli.world.load_to_database # "True"

Phase4Fails == cli.world.phase4_raises \in Phase4Calls

(* C30: Phase 4 is never started in a run in which Phase 3 was executed    *)
(* and failed, and the process exits with status 0 exactly if every phase  *)
(* that was not skipped succeeded (a skipped phase counts as successful).  *)
C30_FailedPhase3StopsPipeline ==
    /\ (3 \in cli.started /\ Phase3Fails) => 4 \notin cli.started
    /\ cli.status # None =>
         (cli.status[1] = 0 <=>
             /\ cli.args.skip_phase3 \/ ~Phase3Fails
             /\ cli.args.skip_phase4 \/ ~Phase4Fails)

(* A run that asked for both phases has exited with status 1 after a       *)
(* database setup that answered False, without starting Phase 4            *)
C30_Witness ==
    /\ cli.pc = "exited" /\ cli.status = Some(1)
    /\ ~cli.args.skip_phase3 /\ ~cli.args.skip_phase4
    /\ cli.world.prepare_all = "returned" /\ cli.world.clean_all = "returned"
    /\ cli.world.setup = "False"
    /\ cli.started = {3}

====
